---- MODULE Spec2Model ----
(***************************************************************************)
(* Model of core/rust/qdbr/src/parquet_write/symbol.rs: the encoding of a  *)
(* QuestDB symbol column into a Parquet dictionary page and data page.     *)
(*                                                                         *)
(* One call of symbol_to_pages is a run of the state machine.  The inputs  *)
(* (column_values, offsets, chars, column_top) are chosen in Init; each    *)
(* action is one step of the call: the definition-level scan, the key      *)
(* extraction of encode_symbols_dict, the prelude of encode_dict_buffer,   *)
(* one iteration of its loop, its return, and the page assembly.           *)
(*                                                                         *)
(* usize and u32 values are kept at their width as little-endian sequences *)
(* of 16-bit limbs (4 limbs for usize/u64, 2 limbs for u32), so that the   *)
(* overflow of o + 4, n * 2 and of the capacity estimate is computed, not  *)
(* assumed away.  Rust arithmetic that overflows panics when the build has *)
(* overflow checks and wraps otherwise; the actions take both builds.      *)
(***************************************************************************)
EXTENDS Integers, Sequences, FiniteSets, TLC

\* Bounds of the model (not program constants).
MaxRows == 2
MaxKey == 1
MaxOffsets == 2
MaxTop == 1

(***************************************************************************)
(* Fixed-width unsigned arithmetic on limbs.                               *)
(***************************************************************************)
Base == 256 * 256

\* A natural number below 2^31 as a u32 / as a usize.
U32(n) == <<n % Base, n \div Base>>
USize(n) == <<n % Base, n \div Base, 0, 0>>

\* u64::MAX, the largest offsets entry.
U64Max == <<Base - 1, Base - 1, Base - 1, Base - 1>>

\* The value of limbs known to be below 2^31.
ToNat(a) == a[1] + (Base * a[2])

RECURSIVE AddCarry(_, _, _)
AddCarry(a, b, c) ==
    IF a = <<>> THEN <<c>>
    ELSE LET s == Head(a) + Head(b) + c
         IN  <<s % Base>> \o AddCarry(Tail(a), Tail(b), s \div Base)

RECURSIVE SubBorrow(_, _, _)
SubBorrow(a, b, c) ==
    IF a = <<>> THEN <<c>>
    ELSE LET s == Head(a) - Head(b) - c
         IN  <<(s + Base) % Base>> \o SubBorrow(Tail(a), Tail(b), IF s < 0 THEN 1 ELSE 0)

RECURSIVE MulCarry(_, _, _)
MulCarry(a, m, c) ==
    IF a = <<>> THEN <<c>>
    ELSE LET s == (Head(a) * m) + c
         IN  <<s % Base>> \o MulCarry(Tail(a), m, s \div Base)

\* a + b, a - b, a * m at the width of a: the wrapped value and whether it overflowed.
OverflowingAdd(a, b) ==
    LET r == AddCarry(a, b, 0)
    IN  [val |-> SubSeq(r, 1, Len(a)), overflow |-> r[Len(a) + 1] /= 0]

OverflowingSub(a, b) ==
    LET r == SubBorrow(a, b, 0)
    IN  [val |-> SubSeq(r, 1, Len(a)), overflow |-> r[Len(a) + 1] /= 0]

OverflowingMul(a, m) ==
    LET r == MulCarry(a, m, 0)
    IN  [val |-> SubSeq(r, 1, Len(a)), overflow |-> r[Len(a) + 1] /= 0]

\* a < b for limbs of the same width.
RECURSIVE Lt(_, _)
Lt(a, b) ==
    IF a = <<>> THEN FALSE
    ELSE LET n == Len(a)
         IN  IF a[n] /= b[n] THEN a[n] < b[n]
             ELSE Lt(SubSeq(a, 1, n - 1), SubSeq(b, 1, n - 1))

(***************************************************************************)
(* UTF-16 decoding and UTF-8 encoding, as write_utf8_from_utf16 does them. *)
(***************************************************************************)
IsHighSurrogate(u) == u >= 55296 /\ u <= 56319
IsLowSurrogate(u) == u >= 56320 /\ u <= 57343

\* char::len_utf8
len_utf8(c) == IF c < 128 THEN 1 ELSE IF c < 2048 THEN 2 ELSE IF c < Base THEN 3 ELSE 4

\* char::encode_utf8
encode_utf8(c) ==
    IF c < 128 THEN <<c>>
    ELSE IF c < 2048 THEN <<192 + (c \div 64), 128 + (c % 64)>>
    ELSE IF c < Base THEN <<224 + (c \div 4096), 128 + ((c \div 64) % 64), 128 + (c % 64)>>
    ELSE <<240 + (c \div 262144), 128 + ((c \div 4096) % 64),
           128 + ((c \div 64) % 64), 128 + (c % 64)>>

\* Mutant of push_char: every char pushed as `c as u8`.
push_char_as_u8(c) == <<c % 256>>

\* The bytes one decoded char appends to dest.
push_char(c) == IF len_utf8(c) = 1 THEN <<c % 256>> ELSE encode_utf8(c)

\* Mutant of decode_loop: a lossy decoder, U+FFFD for a code unit that does
\* not decode.
RECURSIVE decode_loop_lossy(_, _, _)
decode_loop_lossy(dest, src, i) ==
    IF i > Len(src) THEN [err |-> FALSE, dest |-> dest, at |-> i]
    ELSE LET u == src[i] IN
         IF ~IsHighSurrogate(u) /\ ~IsLowSurrogate(u)
         THEN decode_loop_lossy(dest \o encode_utf8(u), src, i + 1)
         ELSE IF IsLowSurrogate(u) \/ i = Len(src) \/ ~IsLowSurrogate(src[i + 1])
         THEN decode_loop_lossy(dest \o encode_utf8(65533), src, i + 1)
         ELSE decode_loop_lossy(
                 dest \o encode_utf8(Base + (u - 55296) * 1024 + (src[i + 1] - 56320)),
                 src, i + 2)

\* The loop of write_utf8_from_utf16 from code unit i on: char::decode_utf16
\* yields one scalar value or one error per step, and `c?` returns at the
\* first error with what was appended so far left in dest.
RECURSIVE decode_loop(_, _, _)
decode_loop(dest, src, i) ==
    IF i > Len(src) THEN [err |-> FALSE, dest |-> dest, at |-> i]
    ELSE LET u == src[i] IN
         IF ~IsHighSurrogate(u) /\ ~IsLowSurrogate(u)
         THEN decode_loop(dest \o push_char(u), src, i + 1)
         ELSE IF IsLowSurrogate(u) THEN [err |-> TRUE, dest |-> dest, at |-> i]
         ELSE IF i = Len(src) \/ ~IsLowSurrogate(src[i + 1])
         THEN [err |-> TRUE, dest |-> dest, at |-> i]
         ELSE decode_loop(
                 dest \o push_char(Base + (u - 55296) * 1024 + (src[i + 1] - 56320)),
                 src, i + 2)

write_utf8_from_utf16(dest, src) ==
    LET start_count == Len(dest)
        r == decode_loop(dest, src, 1)
    IN  [err |-> r.err, dest |-> r.dest, len |-> Len(r.dest) - start_count, at |-> r.at]

(***************************************************************************)
(* The inputs of one call.                                                 *)
(***************************************************************************)
\* The global symbol table's character data: records of a 4-byte
\* little-endian count of UTF-16 code units followed by the code units.
GlobalChars ==
       <<5, 0, 0, 0,  97, 0,  233, 0,  172, 32,  61, 216,  0, 222>>  \* @0  "a", e-acute, euro sign, U+1F600
    \o <<0, 0, 0, 0>>                                                \* @14 ""
    \o <<3, 0, 0, 0,  97, 0,  61, 216,  98, 0>>                      \* @18 'a', high surrogate, 'b'
    \o <<1, 0, 0, 0,  0, 222>>                                       \* @28 low surrogate alone
    \o <<2, 0, 0, 0,  97, 0,  61, 216>>                              \* @34 'a', high surrogate at the end
    \o <<0, 222, 0, 0>>                                              \* @42 count 56832
    \o <<255, 255, 255, 255>>                                        \* @46 count with the top bit set
    \o <<3, 0, 0, 0,  98, 0,  99, 0>>                                \* @50 count 3, two code units left

\* Values of offsets entries: the records above, an offset with two bytes
\* left, and u64::MAX.
OffsetVals ==
    {USize(0), USize(14), USize(18), USize(28), USize(34), USize(46), USize(50),
     USize(Len(GlobalChars) - 2), U64Max}

\* Column values of the capacity specification: keys up to i32::MAX.
CapVals == {-1, 0, 1, 1073741823, 1073741824, 2147483647}

Seqs(S, n) == UNION {[1..m -> S] : m \in 0..n}

VARIABLES
    column_values,  \* symbol_to_pages argument: &[i32]
    offsets,        \* symbol_to_pages argument: &[u64]
    chars,          \* symbol_to_pages argument: &[u8]
    column_top,     \* symbol_to_pages argument: usize
    pc,             \* the position of the call
    num_rows,       \* symbol_to_pages local
    null_count,     \* symbol_to_pages local
    deflevels,      \* the booleans deflevels_iter yields to encode_bool_iter
    local_keys,     \* encode_symbols_dict local
    max_key,        \* encode_symbols_dict local
    values_set,     \* encode_dict_buffer local
    end_value,      \* encode_dict_buffer local (u32)
    capacity,       \* encode_dict_buffer locals dense_count, sparse_count, estimate
    key,            \* encode_dict_buffer loop variable
    dict_buffer,    \* encode_dict_buffer local Vec<u8>
    stats,          \* the byte strings given to BinaryMaxMin::update, in order
    dict_result,    \* what encode_symbols_dict returned
    outcome         \* how symbol_to_pages ended

vars == <<column_values, offsets, chars, column_top, pc, num_rows, null_count, deflevels,
          local_keys, max_key, values_set, end_value, capacity, key, dict_buffer, stats,
          dict_result, outcome>>

inputs == <<column_values, offsets, chars, column_top>>

\* The locals before the call has run.
Locals0 ==
    /\ pc = "symbol_to_pages"
    /\ num_rows = 0
    /\ null_count = 0
    /\ deflevels = <<>>
    /\ local_keys = <<>>
    /\ max_key = 0
    /\ values_set = {}
    /\ end_value = U32(0)
    /\ capacity = [dense_count |-> U32(0), sparse_count |-> U32(0),
                   estimate |-> U32(0), overflow |-> FALSE]
    /\ key = 0
    /\ dict_buffer = <<>>
    /\ stats = <<>>
    /\ dict_result = [kind |-> "None", bufs |-> {}]
    /\ outcome = [kind |-> "Running", pages |-> <<>>]

Init ==
    /\ column_values \in Seqs(-1 .. MaxKey, MaxRows)
    /\ offsets \in Seqs(OffsetVals, MaxOffsets)
    /\ chars = GlobalChars
    /\ column_top \in 0 .. MaxTop
    /\ Locals0

InitCap ==
    /\ column_values \in Seqs(CapVals, MaxRows)
    /\ offsets = <<>>
    /\ chars = <<>>
    /\ column_top \in 0 .. MaxTop
    /\ Locals0

(***************************************************************************)
(* symbol_to_pages, lines 178-197: the definition levels and null_count.   *)
(***************************************************************************)
\* The closure of deflevels_iter at row i (0-based): the level it yields.
deflevel_at(vals, top, i) == IF i < top THEN FALSE ELSE vals[(i - top) + 1] > -1

\* What the closure adds to null_count at row i.
null_incr_at(vals, top, i) ==
    IF i < top THEN 0 ELSE IF vals[(i - top) + 1] > -1 THEN 0 ELSE 1

\* null_count after encode_bool_iter has drained rows 0 .. n-1 of the iterator.
RECURSIVE count_nulls(_, _, _)
count_nulls(vals, top, n) ==
    IF n = 0 THEN 0
    ELSE count_nulls(vals, top, n - 1) + null_incr_at(vals, top, n - 1)

DefinitionLevels ==
    /\ pc = "symbol_to_pages"
    /\ num_rows' = column_top + Len(column_values)
    /\ deflevels' = [i \in 1 .. (column_top + Len(column_values)) |->
                        deflevel_at(column_values, column_top, i - 1)]
    /\ null_count' = count_nulls(column_values, column_top, column_top + Len(column_values))
    /\ pc' = "encode_symbols_dict"
    /\ UNCHANGED <<inputs, local_keys, max_key, values_set, end_value, capacity, key,
                   dict_buffer, stats, dict_result, outcome>>

(***************************************************************************)
(* encode_symbols_dict, lines 30-37: the local keys and max_key.           *)
(***************************************************************************)
\* The loop over column_vals from element i on, with the keys and the
\* maximum collected so far.
RECURSIVE extract_keys(_, _, _, _)
extract_keys(vals, i, keys, mx) ==
    IF i > Len(vals) THEN [local_keys |-> keys, max_key |-> mx]
    ELSE IF vals[i] >= 0
         THEN extract_keys(vals, i + 1, Append(keys, vals[i]),
                           IF vals[i] > mx THEN vals[i] ELSE mx)
         ELSE extract_keys(vals, i + 1, keys, mx)

ExtractKeys ==
    /\ pc = "encode_symbols_dict"
    /\ LET r == extract_keys(column_values, 1, <<>>, 0)
       IN  /\ local_keys' = r.local_keys
           /\ max_key' = r.max_key
    /\ pc' = "encode_dict_buffer"
    /\ UNCHANGED <<inputs, num_rows, null_count, deflevels, values_set, end_value,
                   capacity, key, dict_buffer, stats, dict_result, outcome>>

(***************************************************************************)
(* encode_dict_buffer, lines 94-109: values_set, end_value and the         *)
(* capacity estimate.                                                      *)
(***************************************************************************)
\* The fold of `.inspect(|n| end_value = max(end_value, Some(*n + 1)))` from
\* element i on; acc is the Option<u32> as a set of at most one value.
RECURSIVE fold_end_value(_, _, _)
fold_end_value(keys, i, acc) ==
    IF i > Len(keys) THEN acc
    ELSE LET next == OverflowingAdd(U32(keys[i]), U32(1)).val
         IN  fold_end_value(keys, i + 1,
                 IF acc = {} \/ (\E e \in acc : Lt(e, next)) THEN {next} ELSE acc)

\* end_value.unwrap_or(0)
unwrap_end_value(keys) ==
    LET acc == fold_end_value(keys, 1, {})
    IN  IF acc = {} THEN U32(0) ELSE CHOOSE e \in acc : TRUE

\* The HashSet collected from local_keys.
collect_values_set(keys) == {keys[i] : i \in 1 .. Len(keys)}

\* dense_count, sparse_count and dict_buffer_size_estimate in u32, and
\* whether one of the operations overflowed.
size_estimate(vset, endv) ==
    LET dense == U32(Cardinality(vset))
        sparse == OverflowingSub(endv, dense)
        s4 == OverflowingMul(sparse.val, 4)
        d10 == OverflowingMul(dense, 10)
        sum == OverflowingAdd(s4.val, d10.val)
    IN  [dense_count |-> dense, sparse_count |-> sparse.val, estimate |-> sum.val,
         overflow |-> sparse.overflow \/ s4.overflow \/ d10.overflow \/ sum.overflow]

\* overflow_checks: whether the build panics on arithmetic overflow.
DictPrelude ==
    /\ pc = "encode_dict_buffer"
    /\ \E overflow_checks \in BOOLEAN :
        LET vset == collect_values_set(local_keys)
            endv == unwrap_end_value(local_keys)
            est == size_estimate(vset, endv)
        IN  /\ values_set' = vset
            /\ end_value' = endv
            /\ capacity' = est
            /\ IF est.overflow /\ overflow_checks
               THEN /\ pc' = "done"
                    /\ dict_result' = [kind |-> "Panic", bufs |-> {}]
                    /\ outcome' = [kind |-> "Panic", pages |-> <<>>]
               ELSE /\ pc' = "loop"
                    /\ UNCHANGED <<dict_result, outcome>>
    /\ key' = 0
    /\ dict_buffer' = <<>>
    /\ UNCHANGED <<inputs, num_rows, null_count, deflevels, local_keys, max_key, stats>>

(***************************************************************************)
(* encode_dict_buffer, lines 113-154: one iteration of the loop.           *)
(***************************************************************************)
UTF16_LEN_SIZE == 4

\* u32::to_le_bytes
to_le_bytes(n) ==
    <<n % 256, (n \div 256) % 256, (n \div Base) % 256, (n \div (256 * Base)) % 256>>

\* i32::from_le_bytes(b) as usize: the sign bit extends into the upper half.
i32_le_as_usize(b) ==
    LET ext == IF b[4] >= 128 THEN Base - 1 ELSE 0
    IN  <<b[1] + (256 * b[2]), b[3] + (256 * b[4]), ext, ext>>

\* The first n u16 code units of the bytes buf, as the little-endian targets
\* of the crate read the reinterpreted slice.
utf16_units(buf, n) == [i \in 1 .. n |-> buf[(2 * i) - 1] + (256 * buf[2 * i])]

\* Mutant of contains: every key below end_value taken as used.
contains_any(vset, k) == TRUE

\* values_set.contains(&key)
contains(vset, k) == k \in vset

\* dict_buffer[key_index..(key_index + 4)].copy_from_slice(&utf8_len_bytes)
copy_len(buf, key_index, utf8_len) ==
    SubSeq(buf, 1, key_index) \o to_le_bytes(utf8_len) \o SubSeq(buf, key_index + 5, Len(buf))

\* Mutant of update: empty strings skipped like placeholders.
update_nonempty(st, utf8_buf) == IF utf8_buf = <<>> THEN st ELSE Append(st, utf8_buf)

\* stats.update(utf8_buf)
update(st, utf8_buf) == Append(st, utf8_buf)

\* The loop body for `k` on the buffer `buf`.  kind is "Next" when the
\* iteration completes, "Layout" or "Utf16Decode" when it returns that
\* error, "Panic" when it panics; buf is the Vec as the iteration leaves it.
loop_body(buf, st, k, vset, offs, chs, overflow_checks) ==
    LET key_index == Len(buf)
        b0 == buf \o to_le_bytes(0)
        chars_len == USize(Len(chs))
    IN
    IF ~contains(vset, k) THEN [kind |-> "Next", buf |-> b0, stats |-> st]
    ELSE IF k + 1 > Len(offs) THEN [kind |-> "Layout", buf |-> b0, stats |-> st]
    ELSE
    LET qdb_global_offset == offs[k + 1]
        begin == OverflowingAdd(qdb_global_offset, USize(UTF16_LEN_SIZE))
    IN
    IF begin.overflow /\ overflow_checks THEN [kind |-> "Panic", buf |-> b0, stats |-> st]
    ELSE IF Lt(chars_len, begin.val) THEN [kind |-> "Layout", buf |-> b0, stats |-> st]
    \* &chars[qdb_global_offset..] panics when the start is past the end
    ELSE IF Lt(chars_len, qdb_global_offset) THEN [kind |-> "Panic", buf |-> b0, stats |-> st]
    ELSE
    LET at == ToNat(qdb_global_offset)
        qdb_utf16_len_bytes == SubSeq(chs, at + 1, at + UTF16_LEN_SIZE)
        qdb_utf16_buf == SubSeq(chs, at + UTF16_LEN_SIZE + 1, Len(chs))
        qdb_utf16_len == i32_le_as_usize(qdb_utf16_len_bytes)
        byte_len == OverflowingMul(qdb_utf16_len, 2)
    IN
    IF byte_len.overflow /\ overflow_checks THEN [kind |-> "Panic", buf |-> b0, stats |-> st]
    ELSE IF Lt(USize(Len(qdb_utf16_buf)), byte_len.val)
    THEN [kind |-> "Layout", buf |-> b0, stats |-> st]
    ELSE
    LET w == write_utf8_from_utf16(b0, utf16_units(qdb_utf16_buf, ToNat(qdb_utf16_len)))
    IN
    IF w.err THEN [kind |-> "Utf16Decode", buf |-> w.dest, stats |-> st]
    ELSE
    LET utf8_buf == SubSeq(w.dest, key_index + 5, key_index + 4 + w.len)
    IN  [kind |-> "Next", buf |-> copy_len(w.dest, key_index, w.len),
         stats |-> update(st, utf8_buf)]

EncodeKey ==
    /\ pc = "loop"
    /\ Lt(U32(key), end_value)
    /\ \E overflow_checks \in BOOLEAN :
        LET r == loop_body(dict_buffer, stats, key, values_set, offsets, chars,
                           overflow_checks)
        IN  /\ dict_buffer' = r.buf
            /\ stats' = r.stats
            /\ IF r.kind = "Next"
               THEN /\ key' = key + 1
                    /\ UNCHANGED <<pc, dict_result, outcome>>
               ELSE IF r.kind = "Panic"
               THEN /\ pc' = "done"
                    /\ dict_result' = [kind |-> "Panic", bufs |-> {}]
                    /\ outcome' = [kind |-> "Panic", pages |-> <<>>]
                    /\ UNCHANGED key
               ELSE /\ pc' = "unwrap"
                    /\ dict_result' = [kind |-> r.kind, bufs |-> {}]
                    /\ UNCHANGED <<key, outcome>>
    /\ UNCHANGED <<inputs, num_rows, null_count, deflevels, local_keys, max_key,
                   values_set, end_value, capacity>>

\* Line 155 and lines 39-40: the loop is over, Ok(dict_buffer) goes back
\* through encode_symbols_dict.
DictReturn ==
    /\ pc = "loop"
    /\ ~Lt(U32(key), end_value)
    /\ dict_result' = [kind |-> "Ok", bufs |-> {dict_buffer}]
    /\ pc' = "unwrap"
    /\ UNCHANGED <<inputs, num_rows, null_count, deflevels, local_keys, max_key,
                   values_set, end_value, capacity, key, dict_buffer, stats, outcome>>

(***************************************************************************)
(* symbol_to_pages, lines 199-240.                                         *)
(***************************************************************************)
\* Lines 200-204: `.unwrap()` on the Err of encode_symbols_dict panics.
UnwrapErr ==
    /\ pc = "unwrap"
    /\ dict_result.kind \in {"Layout", "Utf16Decode"}
    /\ outcome' = [kind |-> "Panic", pages |-> <<>>]
    /\ pc' = "done"
    /\ UNCHANGED <<inputs, num_rows, null_count, deflevels, local_keys, max_key,
                   values_set, end_value, capacity, key, dict_buffer, stats, dict_result>>

\* util::get_bit_width: the number of bits of max.
RECURSIVE get_bit_width(_)
get_bit_width(max) == IF max = 0 THEN 0 ELSE 1 + get_bit_width(max \div 2)

\* Mutant of uniq_vals: max_key + 1 whatever the buffer holds.
uniq_vals_nonempty(buf, mk) == mk + 1

\* The unique-value count of the dictionary page, lines 229-233.
uniq_vals(buf, mk) == IF buf /= <<>> THEN mk + 1 ELSE 0

\* What build_plain_page is given, lines 205-227.
build_data_page(keys, mk, vals_len, rows, nulls, levels, st, write_statistics) ==
    LET bits_per_key == get_bit_width(mk)
        non_null_len == vals_len - nulls
    IN  [num_rows |-> rows,
         null_count |-> nulls,
         deflevels |-> levels,
         bits_per_key |-> bits_per_key,
         keys |-> keys,
         num_keys |-> non_null_len,
         statistics |-> IF write_statistics
                        THEN {[null_count |-> nulls, values |-> st]}
                        ELSE {}]

\* Lines 200-240 on Ok: both pages, the dictionary page first.
AssemblePages ==
    /\ pc = "unwrap"
    /\ dict_result.kind = "Ok"
    /\ \E write_statistics \in BOOLEAN :
        LET buf == CHOOSE b \in dict_result.bufs : TRUE
            data_page == build_data_page(local_keys, max_key, Len(column_values),
                                         num_rows, null_count, deflevels, stats,
                                         write_statistics)
            dict_page == [buffer |-> buf, num_values |-> uniq_vals(buf, max_key),
                          is_sorted |-> FALSE]
        IN  outcome' = [kind |-> "Pages", pages |-> <<dict_page, data_page>>]
    /\ pc' = "done"
    /\ UNCHANGED <<inputs, num_rows, null_count, deflevels, local_keys, max_key,
                   values_set, end_value, capacity, key, dict_buffer, stats, dict_result>>

Next ==
    \/ DefinitionLevels
    \/ ExtractKeys
    \/ DictPrelude
    \/ EncodeKey
    \/ DictReturn
    \/ UnwrapErr
    \/ AssemblePages

Spec == Init /\ [][Next]_vars

\* The steps up to the capacity estimate, for columns with keys up to i32::MAX.
NextCap ==
    \/ DefinitionLevels
    \/ ExtractKeys
    \/ DictPrelude

SpecCap == InitCap /\ [][NextCap]_vars

(***************************************************************************)
(* Operators used to state the properties.  They read the inputs and the   *)
(* produced bytes on their own, as a reader of the dictionary page and of  *)
(* the global symbol table would, and share nothing with the encoder.      *)
(***************************************************************************)
\* A dictionary buffer read as consecutive [4-byte LE length][bytes] entries;
\* ok says the entries consume the whole buffer.
RECURSIVE parse_entries(_)
parse_entries(buf) ==
    IF buf = <<>> THEN [ok |-> TRUE, entries |-> <<>>]
    ELSE IF Len(buf) < 4 \/ buf[3] /= 0 \/ buf[4] /= 0
    THEN [ok |-> FALSE, entries |-> <<>>]
    ELSE LET n == buf[1] + (256 * buf[2])
         IN  IF Len(buf) < 4 + n THEN [ok |-> FALSE, entries |-> <<>>]
             ELSE LET rest == parse_entries(SubSeq(buf, 5 + n, Len(buf)))
                  IN  [ok |-> rest.ok,
                       entries |-> <<SubSeq(buf, 5, 4 + n)>> \o rest.entries]

\* What is left of buf after its first n entries.
RECURSIVE skip_entries(_, _)
skip_entries(buf, n) ==
    IF n = 0 THEN buf
    ELSE skip_entries(SubSeq(buf, 5 + buf[1] + (256 * buf[2]), Len(buf)), n - 1)

\* The scalar values of shortest-form UTF-8 bytes; -1 marks bytes that are
\* not UTF-8.
RECURSIVE utf8_scalars(_)
utf8_scalars(b) ==
    IF b = <<>> THEN <<>>
    ELSE LET n == IF b[1] < 128 THEN 1
                  ELSE IF b[1] >= 192 /\ b[1] < 224 THEN 2
                  ELSE IF b[1] >= 224 /\ b[1] < 240 THEN 3
                  ELSE IF b[1] >= 240 /\ b[1] < 248 THEN 4
                  ELSE 0
         IN  IF n = 0 \/ Len(b) < n \/ (\E i \in 2 .. n : b[i] < 128 \/ b[i] > 191)
             THEN <<-1>>
             ELSE LET c == IF n = 1 THEN b[1]
                           ELSE IF n = 2 THEN ((b[1] - 192) * 64) + (b[2] - 128)
                           ELSE IF n = 3 THEN ((b[1] - 224) * 4096) + ((b[2] - 128) * 64)
                                              + (b[3] - 128)
                           ELSE ((b[1] - 240) * 262144) + ((b[2] - 128) * 4096)
                                + ((b[3] - 128) * 64) + (b[4] - 128)
                      shortest == \/ n = 1
                                  \/ n = 2 /\ c >= 128
                                  \/ n = 3 /\ c >= 2048
                                  \/ n = 4 /\ c >= Base
                  IN  IF shortest THEN <<c>> \o utf8_scalars(SubSeq(b, n + 1, Len(b)))
                      ELSE <<-1>>

\* The UTF-16 code units of scalar values.
RECURSIVE utf16_of(_)
utf16_of(cs) ==
    IF cs = <<>> THEN <<>>
    ELSE LET c == Head(cs)
         IN  (IF c < Base THEN <<c>>
              ELSE <<55296 + ((c - Base) \div 1024), 56320 + ((c - Base) % 1024)>>)
             \o utf16_of(Tail(cs))

\* The keys the column uses, and the number of dictionary entries they call for.
UsedKeys == {column_values[i] : i \in 1 .. Len(column_values)} \ {-1}
EntryCount ==
    IF UsedKeys = {} THEN 0 ELSE 1 + (CHOOSE m \in UsedKeys : \A u \in UsedKeys : u <= m)

\* Key k has an offsets entry o with a whole record at it: four bytes of
\* count n at o, the top bit clear, and 2n bytes after them.  (chars is
\* shorter than 2^16 bytes, so such an o and n have no bits above the low 16.)
HasRecord(k) ==
    /\ k + 1 <= Len(offsets)
    /\ LET o == offsets[k + 1]
       IN  /\ o[3] = 0 /\ o[4] = 0 /\ o[2] = 0
           /\ o[1] + 4 <= Len(chars)
           /\ chars[o[1] + 4] = 0 /\ chars[o[1] + 3] = 0
           /\ chars[o[1] + 1] + (256 * chars[o[1] + 2]) <= (Len(chars) - (o[1] + 4)) \div 2

\* The code units of the record of key k.
RecordUnits(k) ==
    LET o == offsets[k + 1][1]
        n == chars[o + 1] + (256 * chars[o + 2])
    IN  [i \in 1 .. n |-> chars[o + 4 + (2 * i) - 1] + (256 * chars[o + 4 + (2 * i)])]

\* Code unit i of u breaks UTF-16: a high surrogate with no low surrogate
\* after it, or a low surrogate with no high surrogate before it.
BadUnit(u, i) ==
    \/ IsHighSurrogate(u[i]) /\ (i = Len(u) \/ ~IsLowSurrogate(u[i + 1]))
    \/ IsLowSurrogate(u[i]) /\ (i = 1 \/ ~IsHighSurrogate(u[i - 1]))
Malformed(u) == \E i \in 1 .. Len(u) : BadUnit(u, i)
FirstBad(u) == CHOOSE i \in 1 .. Len(u) : BadUnit(u, i) /\ \A j \in 1 .. (i - 1) : ~BadUnit(u, j)

\* The UTF-8 length of well-formed code units: a surrogate pair counts four.
RECURSIVE Utf8Len(_)
Utf8Len(u) ==
    IF u = <<>> THEN 0
    ELSE (IF Head(u) < 128 THEN 1
          ELSE IF Head(u) < 2048 THEN 2
          ELSE IF IsHighSurrogate(Head(u)) THEN 4
          ELSE IF IsLowSurrogate(Head(u)) THEN 0
          ELSE 3) + Utf8Len(Tail(u))

\* The distinct used keys below n in ascending order.
RECURSIVE UsedBelow(_)
UsedBelow(n) ==
    IF n = 0 THEN <<>>
    ELSE UsedBelow(n - 1) \o (IF (n - 1) \in UsedKeys THEN <<n - 1>> ELSE <<>>)

\* encode_symbols_dict has returned Ok.
Encoded == dict_result.kind = "Ok"
TheBuffer == CHOOSE b \in dict_result.bufs : TRUE

\* The loop of encode_dict_buffer has stopped with an error at key k.
FailedAt(k) == pc \in {"unwrap", "done"} /\ dict_result.kind /= "Ok" /\ key = k

(***************************************************************************)
(* Properties.                                                             *)
(***************************************************************************)
\* C1: when encode_symbols_dict succeeds, for every non-null column value k
\* the dictionary buffer parses into length-prefixed entries, key k has a
\* whole record in chars, and entry k is the UTF-8 form of exactly the code
\* units of that record (so its stored length is the number of bytes written).
C1_Identity ==
    Encoded =>
        LET p == parse_entries(TheBuffer)
        IN  /\ p.ok
            /\ \A i \in 1 .. Len(column_values) :
                   column_values[i] >= 0 =>
                       LET k == column_values[i]
                       IN  /\ k + 1 <= Len(p.entries)
                           /\ HasRecord(k)
                           /\ utf16_of(utf8_scalars(p.entries[k + 1])) = RecordUnits(k)

\* C1 witness: a successful encoding of a column using a key whose record
\* holds 1-, 2-, 3- and 4-byte characters.
C1_Witness ==
    /\ Encoded
    /\ \E k \in UsedKeys : offsets[k + 1] = USize(0)

\* C2: the keys given to the bit-packing encoder are the non-null column
\* values in row order, and their declared number is the data page's row
\* count minus the data page's null count.
C2_KeyStream ==
    outcome.kind = "Pages" =>
        LET data_page == outcome.pages[2]
        IN  /\ data_page.keys = SelectSeq(column_values, LAMBDA v : v >= 0)
            /\ data_page.num_keys = data_page.num_rows - data_page.null_count

\* C3: a successful encoding's buffer parses into exactly 1 + (largest used
\* key) entries that consume it, none when no key is used, however many
\* entries offsets has; the dictionary page's unique-value count is that
\* number of entries.
C3_Truncation ==
    /\ Encoded =>
           LET p == parse_entries(TheBuffer)
           IN  p.ok /\ Len(p.entries) = EntryCount /\ ToNat(end_value) = EntryCount
    /\ outcome.kind = "Pages" =>
           LET dict_page == outcome.pages[1]
           IN  /\ dict_page.buffer = TheBuffer
               /\ dict_page.num_values = EntryCount

\* C3 witness: pages of a dictionary that is shorter than the offsets table.
C3_Witness ==
    /\ outcome.kind = "Pages"
    /\ outcome.pages[1].num_values >= 1
    /\ outcome.pages[1].num_values < Len(offsets)

\* C4: in a successful encoding every key below end_value that the column
\* does not use has an entry, and it is the empty string (four zero bytes);
\* and the loop never stops with an error at a key the column does not use,
\* whatever offsets holds for it.
C4_Placeholder ==
    /\ Encoded =>
           LET p == parse_entries(TheBuffer)
           IN  \A j \in 0 .. (ToNat(end_value) - 1) :
                   j \notin UsedKeys => j + 1 <= Len(p.entries) /\ p.entries[j + 1] = <<>>
    /\ FailedAt(key) => key \in UsedKeys

\* C4 witness: a successful encoding with an unused key whose offsets entry
\* is u64::MAX.
C4_Witness ==
    /\ Encoded
    /\ \E j \in 0 .. (ToNat(end_value) - 1) : j \notin UsedKeys /\ offsets[j + 1] = U64Max

\* C5: the null count given to the data page, and to its statistics when they
\* are written, is column_top plus the number of negative column values.
C5_NullCount ==
    outcome.kind = "Pages" =>
        LET data_page == outcome.pages[2]
            nulls == column_top + Len(SelectSeq(column_values, LAMBDA v : v < 0))
        IN  /\ data_page.null_count = nulls
            /\ \A st \in data_page.statistics : st.null_count = nulls

\* C6: when the dictionary encoding returns a layout error or a UTF-16
\* decode error, symbol_to_pages returns that error and no page; a call in
\* which encode_symbols_dict returned ends with both pages or with a
\* returned error, never with a panic.  (A panic inside encode_dict_buffer
\* itself is C7's and C10's subject and is left out here.)
C6_ErrorReturned ==
    (pc = "done" /\ dict_result.kind \in {"Ok", "Layout", "Utf16Decode"}) =>
        /\ outcome.kind \in {"Pages", "Err"}
        /\ dict_result.kind = "Ok" => outcome.kind = "Pages" /\ Len(outcome.pages) = 2
        /\ dict_result.kind /= "Ok" => outcome.kind = "Err" /\ outcome.pages = <<>>

\* The offsets entry of key k leaves fewer than four bytes of chars, or the
\* count at it has the top bit set or leaves fewer than 2 * count bytes.
BadLayout(k) == k + 1 <= Len(offsets) /\ ~HasRecord(k)

\* C7: a used key whose offsets entry leaves fewer than 4 bytes of chars, or
\* whose count leaves fewer than 2 * count bytes, makes encode_dict_buffer
\* return a layout error and no buffer: the loop never gets past such a key
\* and stops at it with the layout error only.
C7_BoundsEnforced ==
    \A k \in UsedKeys :
        BadLayout(k) =>
            /\ key <= k
            /\ FailedAt(k) => dict_result = [kind |-> "Layout", bufs |-> {}]

\* C8: a used key whose record holds an unpaired high surrogate, a stray low
\* surrogate or a high surrogate at its end stops the loop: the loop never
\* gets past it, and when it stops there the result is a UTF-16 decode
\* error with no buffer and no page, the Vec then holding the entries
\* of the smaller keys, the zero length and the characters before the bad
\* code unit.  In a successful encoding every entry has the UTF-8 length
\* of its record with each surrogate pair counted as four bytes.
C8_Utf16Decode ==
    /\ \A k \in UsedKeys :
           (HasRecord(k) /\ Malformed(RecordUnits(k))) =>
               /\ key <= k
               /\ FailedAt(k) =>
                      /\ dict_result = [kind |-> "Utf16Decode", bufs |-> {}]
                      /\ outcome.pages = <<>>
                      /\ LET rest == skip_entries(dict_buffer, k)
                             u == RecordUnits(k)
                         IN  /\ Len(rest) >= 4
                             /\ SubSeq(rest, 1, 4) = <<0, 0, 0, 0>>
                             /\ utf16_of(utf8_scalars(SubSeq(rest, 5, Len(rest))))
                                    = SubSeq(u, 1, FirstBad(u) - 1)
    /\ Encoded =>
           LET p == parse_entries(TheBuffer)
           IN  \A k \in UsedKeys :
                   /\ HasRecord(k)
                   /\ ~Malformed(RecordUnits(k))
                   /\ Len(p.entries[k + 1]) = Utf8Len(RecordUnits(k))

\* C8 witness: the loop stopped with a decode error at a key above 0 whose
\* record has a character before the unpaired surrogate.
C8_Witness ==
    /\ dict_result.kind = "Utf16Decode"
    /\ \E k \in UsedKeys : k >= 1 /\ FailedAt(k) /\ offsets[k + 1] = USize(18)
    /\ Len(dict_buffer) > 4 * (key + 1)

\* C9: between iterations and after a successful encoding, the statistics
\* have been given one byte string per distinct used key below the loop's
\* key, in ascending key order, each the UTF-8 form of that key's record,
\* and none for unused keys or null rows.
C9_Statistics ==
    (pc = "loop" \/ Encoded) =>
        LET ks == UsedBelow(key)
        IN  /\ Len(stats) = Len(ks)
            /\ \A i \in 1 .. Len(ks) :
                   /\ HasRecord(ks[i])
                   /\ utf16_of(utf8_scalars(stats[i])) = RecordUnits(ks[i])

\* C9 witness: a successful encoding of a column that repeats its one used
\* key above an unused key.
C9_Witness ==
    /\ Encoded
    /\ Len(stats) = 1
    /\ ToNat(end_value) >= 2
    /\ Len(local_keys) >= 2

\* C10: the u32 arithmetic of the capacity estimate stays in range for every
\* column whose keys are non-negative i32 values, so the estimate never
\* changes how the call ends.
C10_EstimateInRange ==
    pc \in {"loop", "done"} => ~capacity.overflow /\ dict_result.kind /= "Panic"

====
